---- MODULE Spec2Model ----
(***************************************************************************)
(* Expense tracker (beginner/expense-tracker/main.py): an SQLite-backed    *)
(* ledger with add / list / summary / delete / update and two append-only  *)
(* audit logs (deleted_expenses.log, update_expenses.log).                 *)
(*                                                                         *)
(* Strings are sequences of one-character strings, so that str.strip(),    *)
(* strptime() and strftime() are modelled by what they do.  Amounts are    *)
(* integers counting thousandths of a dollar, so that the ":.2f" format    *)
(* of the audit lines is a real rounding.  The timestamp of an audit line  *)
(* is the calendar day of the clock at the time of writing.                *)
(***************************************************************************)
EXTENDS Integers, Sequences, FiniteSets, TLC

\* ---------------------------------------------------------------- bounds
MaxId == 2          \* rows ever inserted
MaxUpdates == 1     \* UPDATE statements ever committed
MaxDeletedLines == 1 \* lines ever appended to deleted_expenses.log

\* ---------------------------------------------------------------- inputs
None == <<>>
Some(x) == <<x>>

\* float("nan"), which argparse's type=float accepts
NaN == 999999999

\* --amount and --description of "add"
Amounts == {-1000, 0, 1504, NaN}

Descriptions == { <<>>, <<" ">>, <<" ", "a">> }

\* --amount and --description of "update", which treats every value of a
\* field alike; the description that add stores is among them
UpdateAmounts == {0, NaN}

UpdateDescriptions == { <<" ">>, <<" ", "a">> }

D_2024_1_5 == <<"2","0","2","4","-","1","-","5">>
D_2023_02_29 == <<"2","0","2","3","-","0","2","-","2","9">>

DateStrings == { D_2024_1_5, D_2023_02_29 }

\* values of datetime.now(), to day granularity
Clock == { [y |-> 2024, m |-> 2, d |-> 29] }

Ids == 1 .. (MaxId + 1)

\* --month of "summary" (type=int)
Months == {0, 1, 2, 13}

\* ------------------------------------------------------- pure functions
Digits == {"0","1","2","3","4","5","6","7","8","9"}

DigitVal(c) ==
    CASE c = "0" -> 0 [] c = "1" -> 1 [] c = "2" -> 2 [] c = "3" -> 3
      [] c = "4" -> 4 [] c = "5" -> 5 [] c = "6" -> 6 [] c = "7" -> 7
      [] c = "8" -> 8 [] c = "9" -> 9

DigitChar(n) ==
    CASE n = 0 -> "0" [] n = 1 -> "1" [] n = 2 -> "2" [] n = 3 -> "3"
      [] n = 4 -> "4" [] n = 5 -> "5" [] n = 6 -> "6" [] n = 7 -> "7"
      [] n = 8 -> "8" [] n = 9 -> "9"

Whitespace == {" "}

RECURSIVE lstrip(_)
lstrip(s) ==
    IF s # <<>> /\ Head(s) \in Whitespace THEN lstrip(Tail(s)) ELSE s

RECURSIVE rstrip(_)
rstrip(s) ==
    IF s # <<>> /\ s[Len(s)] \in Whitespace
    THEN rstrip(SubSeq(s, 1, Len(s) - 1)) ELSE s

\* str.strip(): drops leading and trailing whitespace
strip(s) == rstrip(lstrip(s))

\* "if not description.strip()" of add_expense
DescriptionEmpty(description) == strip(description) = <<>>

AmountNotPositive_strict(amount) == amount # NaN /\ amount < 0

\* "if amount <= 0" of add_expense; any comparison with nan is False
AmountNotPositive(amount) == amount # NaN /\ amount <= 0

IsLeap(y) == (y % 4 = 0 /\ y % 100 # 0) \/ y % 400 = 0

DaysInMonth(y, m) ==
    IF m = 2 THEN (IF IsLeap(y) THEN 29 ELSE 28)
    ELSE IF m \in {4, 6, 9, 11} THEN 30 ELSE 31

\* strptime's pattern for %m: 1[0-2]|0[1-9]|[1-9]
MatchMonth(t) ==
    \/ Len(t) = 2 /\ t[1] = "1" /\ t[2] \in {"0","1","2"}
    \/ Len(t) = 2 /\ t[1] = "0" /\ t[2] \in Digits \ {"0"}
    \/ Len(t) = 1 /\ t[1] \in Digits \ {"0"}

\* strptime's pattern for %d: 3[01]|[12]\d|0[1-9]|[1-9]| [1-9]
MatchDay(t) ==
    \/ Len(t) = 2 /\ t[1] = "3" /\ t[2] \in {"0","1"}
    \/ Len(t) = 2 /\ t[1] \in {"1","2"} /\ t[2] \in Digits
    \/ Len(t) = 2 /\ t[1] = "0" /\ t[2] \in Digits \ {"0"}
    \/ Len(t) = 1 /\ t[1] \in Digits \ {"0"}
    \/ Len(t) = 2 /\ t[1] = " " /\ t[2] \in Digits \ {"0"}

\* strptime's pattern for %Y: \d\d\d\d
MatchYear(t) == Len(t) = 4 /\ \A i \in 1..4 : t[i] \in Digits

RECURSIVE NumVal(_)
NumVal(t) ==
    IF t = <<>> THEN 0
    ELSE IF t[Len(t)] \in Digits
         THEN 10 * NumVal(SubSeq(t, 1, Len(t) - 1)) + DigitVal(t[Len(t)])
         ELSE NumVal(SubSeq(t, 1, Len(t) - 1))

\* the ways the text splits as <year>-<month>-<day> under '%Y-%m-%d'
Splits(s) ==
    { k \in 7 .. (Len(s) - 1) :
        /\ MatchYear(SubSeq(s, 1, 4))
        /\ s[5] = "-"
        /\ MatchMonth(SubSeq(s, 6, k - 1))
        /\ s[k] = "-"
        /\ MatchDay(SubSeq(s, k + 1, Len(s))) }

\* datetime.strptime(date_str, '%Y-%m-%d') returns instead of raising
StrptimeOk(s) ==
    \E k \in Splits(s) :
        LET y == NumVal(SubSeq(s, 1, 4))
            m == NumVal(SubSeq(s, 6, k - 1))
            d == NumVal(SubSeq(s, k + 1, Len(s)))
        IN  y >= 1 /\ d <= DaysInMonth(y, m)

validate_date(date_str) == StrptimeOk(date_str)

Pad2(n) == << DigitChar(n \div 10), DigitChar(n % 10) >>

Pad4(n) == Pad2(n \div 100) \o Pad2(n % 100)

\* datetime.now().strftime("%Y-%m-%d")
StrftimeYmd(now) == Pad4(now.y) \o <<"-">> \o Pad2(now.m) \o <<"-">> \o Pad2(now.d)

\* f"{x:.2f}": thousandths rounded to cents (no input lies on a half)
Format2f(x) ==
    IF x = NaN THEN NaN
    ELSE IF x >= 0 THEN (x + 5) \div 10 ELSE -((5 - x) \div 10)

\* ---------------------------------------------------------------- state
VARIABLES
    tableExists,    \* the expenses table exists in expenses.db
    expenses,       \* committed rows: id -> [date, description, amount]
    seq,            \* sqlite_sequence entry of the AUTOINCREMENT key
    deletedLog,     \* lines of deleted_expenses.log
    updateLog,      \* lines of update_expenses.log
    pc,             \* position of the running invocation of main()
    call,           \* the dispatched operation, its arguments and locals
    outcome,        \* what the operation reported
    dbAccess,       \* connections the dispatched operation opened
    pre,            \* store and logs as they were when the invocation started
    assigned,       \* every id the store has ever handed out
    nUpdates,       \* UPDATE statements committed so far
    ioError,        \* a write to an audit log file raised OSError
    openConns       \* connections this process has opened and not closed

vars == << tableExists, expenses, seq, deletedLog, updateLog, pc, call,
           outcome, dbAccess, pre, assigned, nUpdates, ioError, openConns >>

Snapshot == [ expenses |-> expenses, deletedLog |-> deletedLog,
              updateLog |-> updateLog, tableExists |-> tableExists ]

NoCall == [ name |-> "none" ]

NoSnapshot == [ expenses |-> << >>, deletedLog |-> << >>,
                updateLog |-> << >>, tableExists |-> FALSE ]

Init ==
    /\ tableExists = FALSE
    /\ expenses = << >>
    /\ seq = 0
    /\ deletedLog = << >>
    /\ updateLog = << >>
    /\ pc = "start"
    /\ call = NoCall
    /\ outcome = "none"
    /\ dbAccess = 0
    /\ pre = NoSnapshot
    /\ assigned = {}
    /\ nUpdates = 0
    /\ ioError = FALSE
    /\ openConns = 0

\* ------------------------------------------------------------ the store
Max(S) == CHOOSE x \in S : \A y \in S : y <= x

NextId_reuse(rows, sequence) ==
    IF DOMAIN rows = {} THEN 1 ELSE Max(DOMAIN rows) + 1

\* INTEGER PRIMARY KEY AUTOINCREMENT: one more than the largest rowid the
\* table has ever held, which sqlite_sequence remembers
NextId(rows, sequence) == Max({sequence} \cup DOMAIN rows) + 1

InsertRow_stripped(rows, id, date, description, amount) ==
    [ i \in DOMAIN rows \cup {id} |->
        IF i = id THEN [ date |-> date, description |-> strip(description),
                         amount |-> amount ]
        ELSE rows[i] ]

\* INSERT INTO expenses (date, description, amount) VALUES (?, ?, ?)
InsertRow(rows, id, date, description, amount) ==
    [ i \in DOMAIN rows \cup {id} |->
        IF i = id THEN [ date |-> date, description |-> description,
                         amount |-> amount ]
        ELSE rows[i] ]

\* ------------------------------------------------- __init__ / create_db
create_db_recreate ==
    /\ pc = "start"
    /\ pre' = Snapshot
    /\ call' = [ name |-> "create_db" ]
    /\ dbAccess' = 0
    /\ tableExists' = TRUE
    /\ expenses' = << >>
    /\ outcome' = IF tableExists THEN "exists" ELSE "initialized"
    /\ pc' = "ready"
    /\ openConns' = openConns + 1
    /\ UNCHANGED << seq, deletedLog, updateLog, assigned, nUpdates, ioError >>

\* tracker = ExpenseTracker(), the first statement of main().  "with
\* sqlite3.connect(DB_FILE) as conn" commits or rolls back on leaving the
\* block and does not close conn; no statement of the program closes it
create_db ==
    /\ pc = "start"
    /\ pre' = Snapshot
    /\ call' = [ name |-> "create_db" ]
    /\ dbAccess' = 0
    /\ openConns' = openConns + 1
    /\ IF tableExists
       THEN /\ outcome' = "exists"
            /\ UNCHANGED tableExists
       ELSE /\ tableExists' = TRUE
            /\ outcome' = "initialized"
    /\ pc' = "ready"
    /\ UNCHANGED << expenses, seq, deletedLog, updateLog, assigned, nUpdates,
                    ioError >>

\* ---------------------------------------------------------- add_expense
add_expense(description, amount, now) ==
    /\ pc = "ready"
    /\ call' = [ name |-> "add", description |-> description,
                 amount |-> amount, now |-> now ]
    /\ IF DescriptionEmpty(description) \/ AmountNotPositive(amount)
       THEN /\ outcome' = "validation_error"
            /\ dbAccess' = 0
            /\ UNCHANGED << expenses, seq, assigned, openConns >>
       ELSE /\ dbAccess' = 1
            /\ openConns' = openConns + 1
            /\ IF ~tableExists \/ amount = NaN
               THEN \* no such table, or NOT NULL constraint (nan binds as NULL)
                    /\ outcome' = "storage_error"
                    /\ UNCHANGED << expenses, seq, assigned >>
               ELSE LET id == NextId(expenses, seq)
                    IN  /\ expenses' = InsertRow(expenses, id, StrftimeYmd(now),
                                                 description, amount)
                        /\ seq' = id
                        /\ assigned' = assigned \cup {id}
                        /\ outcome' = "added"
    /\ pc' = "done"
    /\ UNCHANGED << tableExists, deletedLog, updateLog, pre, nUpdates, ioError >>

\* ------------------------------------------------------------- check_id
check_id_any(rows, expense_id) ==
    IF rows # << >>
    THEN LET i == Max(DOMAIN rows)
         IN  << TRUE, Some([ id |-> i, date |-> rows[i].date,
                             description |-> rows[i].description,
                             amount |-> rows[i].amount ]) >>
    ELSE << FALSE, None >>

\* SELECT * FROM expenses WHERE id=? ; (found, row as fetched)
check_id(rows, expense_id) ==
    IF expense_id \in DOMAIN rows
    THEN << TRUE, Some([ id |-> expense_id,
                         date |-> rows[expense_id].date,
                         description |-> rows[expense_id].description,
                         amount |-> rows[expense_id].amount ]) >>
    ELSE << FALSE, None >>

\* ------------------------------------------------------- delete_expense
\* f"{expense_id}: {expense[1]} - {expense[2]} - ${expense[3]:.2f} - {now}"
DeletedLine(expense_id, expense, now) ==
    [ id |-> expense_id, date |-> expense.date,
      description |-> expense.description,
      amount |-> Format2f(expense.amount), ts |-> now ]

DeleteRow_all(rows, expense_id) == << >>

\* DELETE FROM expenses WHERE id=?
DeleteRow(rows, expense_id) ==
    [ i \in DOMAIN rows \ {expense_id} |-> rows[i] ]

\* connect, check_id, and the not-found return
delete_expense_begin(expense_id) ==
    /\ pc = "ready"
    /\ dbAccess' = 1
    /\ openConns' = openConns + 1
    /\ LET r == check_id(expenses, expense_id)
       IN  IF ~r[1]
           THEN /\ call' = [ name |-> "delete", expense_id |-> expense_id ]
                /\ outcome' = "not_found"
                /\ pc' = "done"
           ELSE /\ call' = [ name |-> "delete", expense_id |-> expense_id,
                             expense |-> r[2][1] ]
                /\ outcome' = "running"
                /\ pc' = "del_found"
    /\ UNCHANGED << tableExists, expenses, seq, deletedLog, updateLog, pre,
                    assigned, nUpdates, ioError >>

delete_expense_log_swallow(ok, now) ==
    /\ pc = "del_found"
    /\ IF ok
       THEN deletedLog' = Append(deletedLog,
                                 DeletedLine(call.expense_id, call.expense, now))
       ELSE UNCHANGED deletedLog
    /\ ioError' = ~ok
    /\ pc' = "del_logged"
    /\ UNCHANGED << tableExists, expenses, seq, updateLog, call, outcome,
                    dbAccess, pre, assigned, nUpdates, openConns >>

delete_expense_log_after(ok, now) ==
    /\ pc = "del_found"
    /\ IF ok
       THEN /\ pc' = "del_logged"
            /\ UNCHANGED outcome
       ELSE /\ outcome' = "uncaught_oserror"
            /\ pc' = "done"
    /\ ioError' = ~ok
    /\ UNCHANGED << tableExists, expenses, seq, deletedLog, updateLog, call,
                    dbAccess, pre, assigned, nUpdates, openConns >>

\* open("deleted_expenses.log", "a") and write; OSError is not sqlite3.Error,
\* so a failed write leaves delete_expense through neither except clause
delete_expense_log(ok, now) ==
    /\ pc = "del_found"
    /\ IF ok
       THEN /\ deletedLog' = Append(deletedLog,
                                    DeletedLine(call.expense_id, call.expense, now))
            /\ pc' = "del_logged"
            /\ UNCHANGED outcome
       ELSE /\ outcome' = "uncaught_oserror"
            /\ pc' = "done"
            /\ UNCHANGED deletedLog
    /\ ioError' = ~ok
    /\ UNCHANGED << tableExists, expenses, seq, updateLog, call, dbAccess,
                    pre, assigned, nUpdates, openConns >>

\* cursor.execute("DELETE ..."): the row is gone in the open transaction only
delete_expense_execute ==
    /\ pc = "del_logged"
    /\ pc' = "del_executed"
    /\ UNCHANGED << tableExists, expenses, seq, deletedLog, updateLog, call,
                    outcome, dbAccess, pre, assigned, nUpdates, ioError,
                    openConns >>

\* conn.commit() and the success message
delete_expense_commit ==
    /\ pc = "del_executed"
    /\ expenses' = DeleteRow(expenses, call.expense_id)
    /\ outcome' = "deleted"
    /\ pc' = "done"
    /\ UNCHANGED << tableExists, seq, deletedLog, updateLog, call, dbAccess,
                    pre, assigned, nUpdates, ioError, openConns >>

\* ------------------------------------------------------- update_expense
UpdateRow_all_rows(rows, expense_id, amount, description, date) ==
    [ i \in DOMAIN rows |->
        [ date |-> IF date # None THEN date[1] ELSE rows[i].date,
          description |-> IF description # None THEN description[1]
                          ELSE rows[i].description,
          amount |-> IF amount # None THEN amount[1] ELSE rows[i].amount ] ]

\* UPDATE expenses SET <supplied fields> WHERE id=?
UpdateRow(rows, expense_id, amount, description, date) ==
    [ i \in DOMAIN rows |->
        IF i = expense_id
        THEN [ date |-> IF date # None THEN date[1] ELSE rows[i].date,
               description |-> IF description # None THEN description[1]
                               ELSE rows[i].description,
               amount |-> IF amount # None THEN amount[1] ELSE rows[i].amount ]
        ELSE rows[i] ]

UpdatedLine_supplied(expense_id, expense, amount, description, date, now) ==
    [ id |-> expense_id, ts |-> now,
      amount |-> IF amount # None
                 THEN Some(<< Format2f(expense.amount), Format2f(amount[1]) >>)
                 ELSE None,
      description |-> IF description # None
                      THEN Some(<< expense.description, description[1] >>)
                      ELSE None,
      date |-> IF date # None THEN Some(<< expense.date, date[1] >>) ELSE None ]

\* the "Field: old -> new" segments of the audit line
UpdatedLine(expense_id, expense, amount, description, date, now) ==
    [ id |-> expense_id, ts |-> now,
      amount |-> IF amount # None /\ expense.amount # amount[1]
                 THEN Some(<< Format2f(expense.amount), Format2f(amount[1]) >>)
                 ELSE None,
      description |-> IF description # None /\ expense.description # description[1]
                      THEN Some(<< expense.description, description[1] >>)
                      ELSE None,
      date |-> IF date # None /\ expense.date # date[1]
               THEN Some(<< expense.date, date[1] >>)
               ELSE None ]

\* connect, check_id, build the statement, execute and commit
update_expense_begin(expense_id, amount, description, date) ==
    /\ pc = "ready"
    /\ dbAccess' = 1
    /\ openConns' = openConns + 1
    /\ LET r == check_id(expenses, expense_id)
       IN  IF ~r[1]
           THEN /\ call' = [ name |-> "update", expense_id |-> expense_id,
                             amount |-> amount, description |-> description,
                             date |-> date ]
                /\ outcome' = "not_found"
                /\ pc' = "done"
                /\ UNCHANGED << expenses, nUpdates >>
           ELSE /\ call' = [ name |-> "update", expense_id |-> expense_id,
                             amount |-> amount, description |-> description,
                             date |-> date, expense |-> r[2][1] ]
                /\ IF date # None /\ ~validate_date(date[1])
                   THEN /\ outcome' = "validation_error"
                        /\ pc' = "done"
                        /\ UNCHANGED << expenses, nUpdates >>
                   ELSE IF amount = None /\ description = None /\ date = None
                   THEN /\ outcome' = "nothing_to_update"
                        /\ pc' = "done"
                        /\ UNCHANGED << expenses, nUpdates >>
                   ELSE IF amount = Some(NaN)
                   THEN \* NOT NULL constraint: nan binds as NULL
                        /\ outcome' = "storage_error"
                        /\ pc' = "done"
                        /\ UNCHANGED << expenses, nUpdates >>
                   ELSE /\ expenses' = UpdateRow(expenses, expense_id, amount,
                                                 description, date)
                        /\ nUpdates' = nUpdates + 1
                        /\ outcome' = "running"
                        /\ pc' = "upd_committed"
    /\ UNCHANGED << tableExists, seq, deletedLog, updateLog, pre, assigned,
                    ioError >>

\* open("update_expenses.log", "a") and write, after the commit
update_expense_log(ok, now) ==
    /\ pc = "upd_committed"
    /\ IF ok
       THEN /\ updateLog' = Append(updateLog,
                                   UpdatedLine(call.expense_id, call.expense,
                                               call.amount, call.description,
                                               call.date, now))
            /\ outcome' = "updated"
       ELSE /\ outcome' = "uncaught_oserror"
            /\ UNCHANGED updateLog
    /\ ioError' = ~ok
    /\ pc' = "done"
    /\ UNCHANGED << tableExists, expenses, seq, deletedLog, call, dbAccess,
                    pre, assigned, nUpdates, openConns >>

\* -------------------------------------------------------- list_expenses
\* SELECT id, date, description, amount FROM expenses, then one strptime
\* per row for the display; ValueError is not sqlite3.Error
list_expenses ==
    /\ pc = "ready"
    /\ dbAccess' = 1
    /\ openConns' = openConns + 1
    /\ call' = [ name |-> "list", rows |-> expenses ]
    /\ outcome' = IF expenses = << >> THEN "no_expenses"
                  ELSE IF \E i \in DOMAIN expenses : ~StrptimeOk(expenses[i].date)
                       THEN "uncaught_valueerror"
                       ELSE "listed"
    /\ pc' = "done"
    /\ UNCHANGED << tableExists, expenses, seq, deletedLog, updateLog, pre,
                    assigned, nUpdates, ioError >>

\* --------------------------------------------------- get_total_expenses
MonthOutOfRange_zero(month) == month < 0 \/ month > 12

\* "month < 1 or month > 12"
MonthOutOfRange(month) == month < 1 \/ month > 12

\* SQLite's strftime('%m', date): the month text of a YYYY-MM-DD date,
\* NULL (here None) for text that SQLite does not read as a date
SqliteStrftimeM(date) ==
    IF /\ Len(date) = 10
       /\ \A i \in {1, 2, 3, 4, 6, 7, 9, 10} : date[i] \in Digits
       /\ date[5] = "-" /\ date[8] = "-"
       /\ NumVal(SubSeq(date, 6, 7)) \in 1..12
       /\ NumVal(SubSeq(date, 9, 10)) \in 1..31
    THEN Some(SubSeq(date, 6, 7))
    ELSE None

\* the rows of WHERE strftime('%m', date)=? with f"{month:02d}" bound
RowsOfMonth(rows, month) ==
    { i \in DOMAIN rows : SqliteStrftimeM(rows[i].date) = Some(Pad2(month)) }

RECURSIVE SumAmounts(_, _)
\* SUM(amount) over the selected rows
SumAmounts(rows, S) ==
    IF S = {} THEN 0
    ELSE LET i == CHOOSE x \in S : TRUE
         IN  rows[i].amount + SumAmounts(rows, S \ {i})

\* what the query and the display branch give: (outcome, call)
TotalOf(rows, month) ==
    LET S == IF month # None THEN RowsOfMonth(rows, month[1]) ELSE DOMAIN rows
    IN  IF S = {}
        THEN \* SUM over no rows is NULL
             << "no_expenses", [ name |-> "summary", month |-> month ] >>
        ELSE << "total", [ name |-> "summary", month |-> month,
                           total |-> SumAmounts(rows, S) ] >>

get_total_expenses_connect_first(month) ==
    /\ pc = "ready"
    /\ dbAccess' = 1
    /\ openConns' = openConns + 1
    /\ IF month # None /\ MonthOutOfRange(month[1])
       THEN /\ call' = [ name |-> "summary", month |-> month ]
            /\ outcome' = "validation_error"
       ELSE /\ call' = TotalOf(expenses, month)[2]
            /\ outcome' = TotalOf(expenses, month)[1]
    /\ pc' = "done"
    /\ UNCHANGED << tableExists, expenses, seq, deletedLog, updateLog, pre,
                    assigned, nUpdates, ioError >>

get_total_expenses(month) ==
    /\ pc = "ready"
    /\ IF month # None /\ MonthOutOfRange(month[1])
       THEN /\ call' = [ name |-> "summary", month |-> month ]
            /\ outcome' = "validation_error"
            /\ dbAccess' = 0
            /\ UNCHANGED openConns
       ELSE /\ dbAccess' = 1
            /\ openConns' = openConns + 1
            /\ call' = TotalOf(expenses, month)[2]
            /\ outcome' = TotalOf(expenses, month)[1]
    /\ pc' = "done"
    /\ UNCHANGED << tableExists, expenses, seq, deletedLog, updateLog, pre,
                    assigned, nUpdates, ioError >>

\* ------------------------------------------------------------ print_help
\* no subcommand: the else branch of main(), after the tracker was built
print_help ==
    /\ pc = "ready"
    /\ call' = [ name |-> "help" ]
    /\ outcome' = "help"
    /\ dbAccess' = 0
    /\ pc' = "done"
    /\ UNCHANGED << tableExists, expenses, seq, deletedLog, updateLog, pre,
                    assigned, nUpdates, ioError, openConns >>

\* ------------------------------------------------------- crash and exit
\* the process is killed inside an operation; SQLite rolls back whatever
\* the open transaction had not committed, and the system closes the files
Crash ==
    /\ pc \in {"del_found", "del_logged", "del_executed", "upd_committed"}
    /\ pc' = "done"
    /\ outcome' = "crashed"
    /\ openConns' = 0
    /\ UNCHANGED << tableExists, expenses, seq, deletedLog, updateLog, call,
                    dbAccess, pre, assigned, nUpdates, ioError >>

\* main() returns and the process ends; only the files remain
Exit ==
    /\ pc = "done"
    /\ pc' = "start"
    /\ call' = NoCall
    /\ outcome' = "none"
    /\ dbAccess' = 0
    /\ pre' = NoSnapshot
    /\ ioError' = FALSE
    /\ openConns' = 0
    /\ UNCHANGED << tableExists, expenses, seq, deletedLog, updateLog,
                    assigned, nUpdates >>

Opt(S) == {None} \cup { Some(x) : x \in S }

Next ==
    \/ create_db
    \/ /\ pc = "ready" /\ seq < MaxId
       /\ \E description \in Descriptions, amount \in Amounts, now \in Clock :
             add_expense(description, amount, now)
    \/ /\ pc = "ready" /\ Len(deletedLog) < MaxDeletedLines
       /\ \E expense_id \in Ids : delete_expense_begin(expense_id)
    \/ \E ok \in BOOLEAN, now \in Clock : delete_expense_log(ok, now)
    \/ delete_expense_execute
    \/ delete_expense_commit
    \/ /\ pc = "ready" /\ nUpdates < MaxUpdates
       /\ \E expense_id \in Ids, amount \in Opt(UpdateAmounts),
             description \in Opt(UpdateDescriptions), date \in Opt(DateStrings) :
             update_expense_begin(expense_id, amount, description, date)
    \/ \E ok \in BOOLEAN, now \in Clock : update_expense_log(ok, now)
    \/ list_expenses
    \/ \E month \in Opt(Months) : get_total_expenses(month)
    \/ print_help
    \/ Crash
    \/ Exit

Spec == Init /\ [][Next]_vars

\* ------------------------------------------------ the garbage collector
\* connections the running code can still reach: the conn of the operation
\* that is inside its with block, or whose frame an uncaught exception's
\* traceback keeps
Live ==
    IF \/ pc \in {"del_found", "del_logged", "del_executed", "upd_committed"}
       \/ pc = "done" /\ outcome \in {"uncaught_oserror", "uncaught_valueerror"}
    THEN 1 ELSE 0

\* sqlite3 closes a connection only when its object is finalised; when the
\* interpreter does that for the conn a returned function has left behind
\* is not the program's choice
gc_collect ==
    /\ pc \in {"ready", "del_found", "del_logged", "del_executed",
               "upd_committed", "done"}
    /\ openConns > Live
    /\ openConns' = Live
    /\ UNCHANGED << tableExists, expenses, seq, deletedLog, updateLog, pc, call,
                    outcome, dbAccess, pre, assigned, nUpdates, ioError >>

\* the collector changes openConns only, so it is left out of Spec, under
\* which the properties that do not mention openConns are checked
NextGc == Next \/ gc_collect

SpecGc == Init /\ [][NextGc]_vars

\* ================================================================ claims
\* an operation of this name has returned (or the process has died in it)
Returned(name) == pc = "done" /\ call.name = name

\* the text is ISO YYYY-MM-DD and names a day of the calendar
IsIsoDate(s) ==
    /\ Len(s) = 10
    /\ \A i \in {1, 2, 3, 4, 6, 7, 9, 10} : s[i] \in Digits
    /\ s[5] = "-" /\ s[8] = "-"
    /\ LET y == NumVal(SubSeq(s, 1, 4))
           m == NumVal(SubSeq(s, 6, 7))
           d == NumVal(SubSeq(s, 9, 10))
       IN  y >= 1 /\ m \in 1..12 /\ d >= 1 /\ d <= DaysInMonth(y, m)

\* c is the amount x (thousandths) shown to two decimals
IsTwoDecimalOf(c, x) == 10 * c - 5 <= x /\ x < 10 * c + 5

\* the deletion-log line carries id i and the values of row r
LineCarries(line, i, r) ==
    /\ line.id = i
    /\ line.date = r.date
    /\ line.description = r.description
    /\ IsTwoDecimalOf(line.amount, r.amount)

\* C1: every stored expense has an amount strictly greater than zero.
\* update_expense writes the supplied amount unchecked, so this fails.
C1_AmountPositive ==
    \A i \in DOMAIN expenses :
        expenses[i].amount # NaN /\ expenses[i].amount > 0

\* C2: every stored expense has a description that is neither empty nor
\* whitespace-only.  update_expense writes the supplied description
\* unchecked, so this fails.
C2_DescriptionNonBlank ==
    \A i \in DOMAIN expenses :
        \E k \in 1..Len(expenses[i].description) :
            expenses[i].description[k] \notin Whitespace

\* C3: every stored expense's date is a valid calendar date in YYYY-MM-DD
\* form.  strptime also accepts months and days without the leading zero,
\* so update_expense stores "2024-1-5" and this fails.
C3_DateIso ==
    \A i \in DOMAIN expenses : IsIsoDate(expenses[i].date)

\* C4: the id of a newly inserted row is strictly greater than every id
\* the store has ever assigned, deleted ones included.
C4_IdNeverReused ==
    [][ \A i \in (DOMAIN expenses') \ (DOMAIN expenses) :
            \A j \in assigned : i > j ]_vars

\* the store was emptied by deleting row 1, and the next add got id 2
C4_Witness ==
    /\ Returned("add") /\ outcome = "added"
    /\ pre.expenses = << >>
    /\ Len(pre.deletedLog) > 0
    /\ DOMAIN expenses = {2}

\* C5: add with a description that is non-empty after trimming and an
\* amount > 0 leaves the store with exactly one more row, carrying that
\* description, that amount and the current date, and every earlier row
\* still present and unchanged.
C5_AddInserts ==
    ( /\ Returned("add")
      /\ \E k \in 1..Len(call.description) : call.description[k] \notin Whitespace
      /\ call.amount # NaN /\ call.amount > 0 )
    => /\ outcome = "added"
       /\ \E id \in (DOMAIN expenses) \ (DOMAIN pre.expenses) :
            /\ DOMAIN expenses = DOMAIN pre.expenses \cup {id}
            /\ expenses[id].description = call.description
            /\ expenses[id].amount = call.amount
            /\ IsIsoDate(expenses[id].date)
            /\ NumVal(SubSeq(expenses[id].date, 1, 4)) = call.now.y
            /\ NumVal(SubSeq(expenses[id].date, 6, 7)) = call.now.m
            /\ NumVal(SubSeq(expenses[id].date, 9, 10)) = call.now.d
       /\ \A i \in DOMAIN pre.expenses : expenses[i] = pre.expenses[i]

\* a valid add into a store that already held a row
C5_Witness ==
    /\ Returned("add") /\ outcome = "added"
    /\ pre.expenses # << >>
    /\ call.description = << " ", "a" >>

\* C6: add with an empty or whitespace-only description, or with
\* amount <= 0, reports a validation error, leaves the store and the logs
\* as they were, and opens no connection.
C6_AddRejects ==
    ( /\ Returned("add")
      /\ \/ \A k \in 1..Len(call.description) : call.description[k] \in Whitespace
         \/ (call.amount # NaN /\ call.amount <= 0) )
    => /\ outcome = "validation_error"
       /\ expenses = pre.expenses
       /\ deletedLog = pre.deletedLog
       /\ updateLog = pre.updateLog
       /\ dbAccess = 0

\* a whitespace-only description with a good amount, rejected on a
\* store that holds a row
C6_Witness ==
    /\ Returned("add") /\ outcome = "validation_error"
    /\ call.description = << " " >>
    /\ call.amount = 1504
    /\ pre.expenses # << >>

\* C7: a delete of a present id that succeeds removes exactly that row,
\* leaves every other row as it was, appends exactly one line to the
\* deletion log carrying the row's id, date, description and two-decimal
\* amount, and leaves the update log alone; a present id is never
\* reported not-found.
C7_DeleteRemovesAndLogs ==
    ( Returned("delete") /\ call.expense_id \in DOMAIN pre.expenses )
    => /\ outcome # "not_found"
       /\ outcome = "deleted" =>
            /\ DOMAIN expenses = (DOMAIN pre.expenses) \ {call.expense_id}
            /\ \A i \in DOMAIN expenses : expenses[i] = pre.expenses[i]
            /\ Cardinality(DOMAIN expenses) = Cardinality(DOMAIN pre.expenses) - 1
            /\ Len(deletedLog) = Len(pre.deletedLog) + 1
            /\ SubSeq(deletedLog, 1, Len(pre.deletedLog)) = pre.deletedLog
            /\ LineCarries(deletedLog[Len(deletedLog)], call.expense_id,
                           pre.expenses[call.expense_id])
            /\ updateLog = pre.updateLog

\* one of two rows was deleted; its amount 1.504 is logged as 1.50
C7_Witness ==
    /\ Returned("delete") /\ outcome = "deleted"
    /\ Cardinality(DOMAIN pre.expenses) = 2
    /\ pre.expenses[call.expense_id].amount = 1504
    /\ deletedLog[Len(deletedLog)].amount = 150

\* C8: delete and update of an id that is not in the store report
\* not-found and leave the store and both logs as they were.
C8_NotFoundNoEffect ==
    ( /\ pc = "done" /\ call.name \in {"delete", "update"}
      /\ call.expense_id \notin DOMAIN pre.expenses )
    => /\ outcome = "not_found"
       /\ expenses = pre.expenses
       /\ deletedLog = pre.deletedLog
       /\ updateLog = pre.updateLog

\* an update of an absent id that supplied every field, on a store that
\* holds another row
C8_Witness ==
    /\ Returned("update") /\ outcome = "not_found"
    /\ call.amount # None /\ call.description # None /\ call.date # None
    /\ pre.expenses # << >>

\* C9: whenever a row leaves the store, the deletion log already holds a
\* line with that row's id, date, description and two-decimal amount;
\* this holds at every step of delete_expense, a crash included.
C9_PreImageLogged ==
    [][ \A i \in (DOMAIN expenses) \ (DOMAIN expenses') :
            \E k \in 1..Len(deletedLog) :
                LineCarries(deletedLog[k], i, expenses[i]) ]_vars

\* the only row has left the store, after an update had changed it, and
\* the log holds the line with the values it had last
C9_Witness ==
    /\ Returned("delete") /\ outcome = "deleted"
    /\ expenses = << >>
    /\ nUpdates > 0
    /\ pre.expenses[call.expense_id].description = << " " >>
    /\ deletedLog[Len(deletedLog)].description = << " " >>

\* C10: when the write to the deletion log fails, the row stays in the
\* store, the store and the logs are as they were, and the failure leaves
\* delete_expense as an exception instead of a reported deletion.
C10_LogFailureStopsDelete ==
    ( Returned("delete") /\ ioError )
    => /\ outcome = "uncaught_oserror"
       /\ call.expense_id \in DOMAIN expenses
       /\ expenses = pre.expenses
       /\ deletedLog = pre.deletedLog

\* the log write failed on a delete of one of two rows
C10_Witness ==
    /\ Returned("delete") /\ ioError
    /\ call.expense_id \in DOMAIN pre.expenses
    /\ Cardinality(DOMAIN pre.expenses) = 2

\* the update was given an id that the store held when the invocation began
UpdateOfPresent ==
    call.name = "update" /\ call.expense_id \in DOMAIN pre.expenses

\* the row an update of row old with the supplied fields is to leave
ExpectedRow(old) ==
    [ date |-> IF call.date = None THEN old.date ELSE call.date[1],
      description |-> IF call.description = None THEN old.description
                      ELSE call.description[1],
      amount |-> IF call.amount = None THEN old.amount ELSE call.amount[1] ]

\* the store and both logs are as they were when the invocation began
NothingChanged ==
    /\ expenses = pre.expenses
    /\ deletedLog = pre.deletedLog
    /\ updateLog = pre.updateLog

\* the month a stored date names: the number between its two dashes
MonthOfDate(date) ==
    LET k == CHOOSE j \in 7..Len(date) : date[j] = "-"
    IN  NumVal(SubSeq(date, 6, k - 1))

\* C11: an update of a present row whose supplied fields all equal the
\* stored values (or that supplies none) reports "nothing to update" and
\* touches neither the store nor the update log.  update_expense runs the
\* UPDATE and writes a log line whenever a field is supplied, so this fails
\* (stated for invocations without a failed log write or a crash).
C11_NoOpUpdate ==
    ( /\ pc = "done" /\ UpdateOfPresent
      /\ ~ioError /\ outcome # "crashed"
      /\ LET old == pre.expenses[call.expense_id]
         IN  /\ call.amount = None \/ call.amount[1] = old.amount
             /\ call.description = None \/ call.description[1] = old.description
             /\ call.date = None \/ call.date[1] = old.date )
    => /\ outcome = "nothing_to_update"
       /\ NothingChanged

\* C12: an update of a present row with a date that is not a valid
\* YYYY-MM-DD calendar date is rejected with the store and both logs
\* unchanged.  "2024-1-5" passes validate_date (see C3), so this fails
\* (stated for invocations without a failed log write or a crash).
C12_BadDateRejected ==
    ( /\ pc = "done" /\ UpdateOfPresent
      /\ ~ioError /\ outcome # "crashed"
      /\ call.date # None /\ ~IsIsoDate(call.date[1]) )
    => /\ outcome # "updated"
       /\ NothingChanged

\* C13: the update log grows only by an update that has committed, by
\* exactly one line for each update that succeeds, and the line has a
\* segment for a field exactly when the field was supplied with a value
\* other than the one in the pre-update row, showing that old value and
\* the supplied one.
C13_UpdateLogLine ==
    /\ ( Returned("update") /\ outcome = "updated" ) => updateLog # pre.updateLog
    /\ ( call.name = "update" /\ updateLog # pre.updateLog )
       => /\ pc = "done" /\ outcome = "updated"
          /\ call.expense_id \in DOMAIN pre.expenses
          /\ Len(updateLog) = Len(pre.updateLog) + 1
          /\ SubSeq(updateLog, 1, Len(pre.updateLog)) = pre.updateLog
          /\ LET old == pre.expenses[call.expense_id]
                 line == updateLog[Len(updateLog)]
             IN  /\ expenses[call.expense_id] = ExpectedRow(old)
                 /\ line.id = call.expense_id
                 /\ (line.amount # None)
                      <=> (call.amount # None /\ call.amount[1] # old.amount)
                 /\ line.amount # None
                      => /\ IsTwoDecimalOf(line.amount[1][1], old.amount)
                         /\ IsTwoDecimalOf(line.amount[1][2], call.amount[1])
                 /\ (line.description # None)
                      <=> ( /\ call.description # None
                            /\ call.description[1] # old.description )
                 /\ line.description # None
                      => line.description[1]
                           = << old.description, call.description[1] >>
                 /\ (line.date # None)
                      <=> (call.date # None /\ call.date[1] # old.date)
                 /\ line.date # None
                      => line.date[1] = << old.date, call.date[1] >>

\* amount 1.504 -> 0 is logged as 1.50 -> 0.00, and the description,
\* supplied with the value it already had, is left out of the line
C13_Witness ==
    /\ Returned("update") /\ outcome = "updated"
    /\ call.amount = Some(0)
    /\ call.description = Some(<< " ", "a" >>)
    /\ updateLog[Len(updateLog)].amount = Some(<< 150, 0 >>)
    /\ updateLog[Len(updateLog)].description = None
    /\ expenses[call.expense_id].amount = 0

\* C14: summarize returns the sum of the amounts of all rows, or with a
\* month in 1..12 of exactly the rows whose date names that month, and
\* "no expenses" when that set is empty; it changes nothing.  A row dated
\* "2024-1-5" (see C3) is not counted for month 1, so this fails.
C14_SummarySum ==
    ( /\ Returned("summary")
      /\ call.month = None \/ call.month[1] \in 1..12 )
    => LET S == IF call.month = None THEN DOMAIN pre.expenses
                ELSE { i \in DOMAIN pre.expenses :
                         MonthOfDate(pre.expenses[i].date) = call.month[1] }
       IN  /\ S = {} => outcome = "no_expenses"
           /\ S # {} => /\ outcome = "total"
                        /\ call.total = SumAmounts(pre.expenses, S)
           /\ NothingChanged

\* C15: summarize with a month outside 1..12 reports a validation error
\* and opens no connection.
C15_BadMonthRejected ==
    ( /\ Returned("summary") /\ call.month # None
      /\ (call.month[1] < 1 \/ call.month[1] > 12) )
    => /\ outcome = "validation_error"
       /\ dbAccess = 0
       /\ NothingChanged

\* month 0 refused on a store that holds a row
C15_Witness ==
    /\ Returned("summary") /\ outcome = "validation_error"
    /\ call.month = Some(0)
    /\ expenses # << >>

\* C16: no failure inside add, list, summarize, delete or update leaves
\* the operation uncaught.  The OSError of a failed audit-log write is
\* caught by neither operation, so this fails.
C16_NoUncaughtFault ==
    ( pc = "done" /\ call.name \in {"add", "list", "summary", "delete", "update"} )
    => outcome \notin {"uncaught_oserror", "uncaught_valueerror"}

\* C17 as stated: every validation error and "nothing to update" is
\* reported by an operation that has opened no connection.
C17_ValidationBeforeAccess ==
    ( pc = "done" /\ outcome \in {"validation_error", "nothing_to_update"} )
    => dbAccess = 0

\* C17 as amended: every validation error and "nothing to update" leaves
\* the store and both logs unchanged; add and summarize report theirs
\* before opening a connection, update after its lookup.
C17_ValidationBeforeMutation ==
    ( pc = "done" /\ outcome \in {"validation_error", "nothing_to_update"} )
    => /\ NothingChanged
       /\ call.name \in {"add", "summary", "update"}
       /\ call.name \in {"add", "summary"} => dbAccess = 0
       /\ call.name = "update" => dbAccess = 1 /\ UpdateOfPresent

\* a malformed date, supplied together with an amount, refused by an
\* update that had already looked the row up
C17_Witness ==
    /\ Returned("update") /\ outcome = "validation_error"
    /\ call.date = Some(D_2023_02_29)
    /\ call.amount = Some(0)
    /\ dbAccess = 1

\* C18: create_db leaves every row and both logs as they were; when the
\* table exists it does nothing, and it creates the table only when it
\* is absent.
C18_InitIdempotent ==
    ( pc = "ready" )
    => /\ call.name = "create_db"
       /\ NothingChanged
       /\ tableExists
       /\ pre.tableExists => outcome = "exists"
       /\ ~pre.tableExists => outcome = "initialized"

\* the constructor ran on a store that held two rows
C18_Witness ==
    /\ pc = "ready" /\ outcome = "exists"
    /\ Cardinality(DOMAIN expenses) = 2

\* C19: an invocation without a subcommand leaves the store, the
\* existence of its table included, and both logs as they were.  main()
\* builds the tracker first, which creates the table, so this fails.
C19_HelpNoSideEffect ==
    Returned("help") => ( tableExists = pre.tableExists /\ NothingChanged )

\* C20: an update writes all supplied fields in one step and nothing
\* else: the target row is either as it was or has every supplied field
\* new and every other field as before, the other rows, the set of ids
\* and the deletion log are unchanged, and a successful update has
\* written.
C20_UpdateFrame ==
    ( UpdateOfPresent )
    => LET old == pre.expenses[call.expense_id]
       IN  /\ DOMAIN expenses = DOMAIN pre.expenses
           /\ \A i \in (DOMAIN expenses) \ {call.expense_id} :
                 expenses[i] = pre.expenses[i]
           /\ expenses[call.expense_id] \in { old, ExpectedRow(old) }
           /\ outcome = "updated" => expenses[call.expense_id] = ExpectedRow(old)
           /\ deletedLog = pre.deletedLog

\* only the amount of one of two rows was supplied and changed
C20_Witness ==
    /\ Returned("update") /\ outcome = "updated"
    /\ Cardinality(DOMAIN expenses) = 2
    /\ call.amount = Some(0) /\ call.description = None /\ call.date = None
    /\ expenses[call.expense_id].amount = 0
    /\ expenses[call.expense_id].description = << " ", "a" >>

\* C21: every operation that opened a connection has closed it by the time
\* it returns, whether it succeeded, refused its input, found no such id
\* or caught a storage error, so that no connection of the process is open
\* then.  No statement closes a connection, and the with block of
\* sqlite3.connect only ends the transaction, so this fails.
C21_ConnectionReleased ==
    ( /\ pc = "done" /\ dbAccess = 1
      /\ call.name \in {"add", "list", "summary", "delete", "update"}
      /\ outcome \notin {"crashed", "uncaught_oserror", "uncaught_valueerror"} )
    => openConns = 0
====
